---- MODULE Spec2Model ----
(***************************************************************************)
(* Model of models/novel_model.py (class NovelModel): construction from    *)
(* an option object, set_input, forward, backward_D, backward_G and the    *)
(* statement sequence of optimize_parameters.                              *)
(*                                                                         *)
(* Tensors are abstracted to what the properties are about: the batches    *)
(* their data comes from, the batch key they were read from, whether the   *)
(* autograd graph links them to Generator / Discriminator parameters, and  *)
(* their representation.  Network parameters are a version counter that an *)
(* optimizer step advances; a gradient accumulator is the set of loss      *)
(* terms that were back-propagated into it since it was last zeroed.       *)
(***************************************************************************)
EXTENDS Integers, Sequences, FiniteSets

VARIABLES
    configured,  \* the option values as parsed, before any model was built
    opt,         \* the option object (mutable, shared by every construction)
    util,        \* autograd behaviour of utils.util.bits2im / im2tensor
    builds,      \* number of NovelModel constructions from opt
    batches,     \* number of batches handed to set_input
    pc,          \* position of the single thread of control
    trace,       \* statements of the running optimize_parameters call, in order
    self         \* attributes of the NovelModel instance

vars == <<configured, opt, util, builds, batches, pc, trace, self>>

----------------------------------------------------------------------------
(* Bounds *)

MaxIter == 2     \* batches fed to one run
MaxBuilds == 2   \* constructions from the same option object

(* Option values explored *)
ChannelCounts == {1, 3}
Watermarks == {"lsb", "lsbm", "lsbmr", "rlsb", "dct", "lsmr", "LSB"}
ValidWatermarks == {"lsb", "lsbm", "lsbmr", "rlsb", "dct"}
Directions == {"AtoB", "BtoA", "btoa"}

----------------------------------------------------------------------------
(* Values *)

NoVal == [from |-> {}, key |-> "none", graphG |-> FALSE, graphD |-> FALSE, form |-> "none"]

NoLoss == [from |-> {}, partsG |-> {}, partsD |-> {}]

NoCall == [codec |-> "none", channel |-> 0, image |-> NoVal, reference |-> NoVal]

NoNet == [input_nc |-> 0, output_nc |-> 0, params |-> 0, grad |-> {},
          requires_grad |-> FALSE, calls |-> 0]

NoOptimizer == [net |-> "none"]

\* the mapping the dataloader hands to set_input for batch b
Batch(b) ==
    [A       |-> [from |-> {b}, key |-> "A", graphG |-> FALSE, graphD |-> FALSE, form |-> "net"],
     B       |-> [from |-> {b}, key |-> "B", graphG |-> FALSE, graphD |-> FALSE, form |-> "net"],
     A_paths |-> [from |-> {b}, key |-> "A_paths", graphG |-> FALSE, graphD |-> FALSE, form |-> "paths"],
     B_paths |-> [from |-> {b}, key |-> "B_paths", graphG |-> FALSE, graphD |-> FALSE, form |-> "paths"]]

----------------------------------------------------------------------------
(* Tensor operations *)

\* tensor.detach(): same data, no backward linkage
Detach(t) == [t EXCEPT !.graphG = FALSE, !.graphD = FALSE]

\* torch.cat((a, b), 1): channel concatenation of the conditioning and the candidate
Cat(a, b) ==
    [from |-> a.from \cup b.from, key |-> b.key,
     graphG |-> a.graphG \/ b.graphG, graphD |-> a.graphD \/ b.graphD, form |-> "pair"]

\* utils.util.bits2im: collapse 8 bit planes per channel into pixel values
bits2im(t) == [t EXCEPT !.graphG = t.graphG /\ util.bits2im, !.form = "img"]

\* utils.util.tensor2im: tensor to a numpy pixel array for the codec
tensor2im(t) == [t EXCEPT !.graphG = FALSE, !.graphD = FALSE, !.form = "numpy"]

\* utils.util.im2tensor: image back to the tensor the SSIM criterion takes
im2tensor(t) == [t EXCEPT !.graphG = t.graphG /\ util.im2tensor, !.form = "ssim"]

\* self.netG(x): the output is linked to the Generator's parameters
NetGForward(x) ==
    [from |-> x.from, key |-> "fake", graphG |-> TRUE, graphD |-> FALSE, form |-> "net"]

\* self.netD(x): linked to the Discriminator's parameters iff they require grad
NetDForward(x, requires_grad) ==
    [from |-> x.from, key |-> x.key, graphG |-> x.graphG, graphD |-> requires_grad,
     form |-> "pred"]

\* a scalar loss term computed from tensors a and b
LossTerm(name, a, b) ==
    [from   |-> a.from \cup b.from,
     partsG |-> IF a.graphG \/ b.graphG THEN {name} ELSE {},
     partsD |-> IF a.graphD \/ b.graphD THEN {name} ELSE {}]

\* sum of loss values
LossSum(ls) ==
    [from   |-> UNION {l.from : l \in ls},
     partsG |-> UNION {l.partsG : l \in ls},
     partsD |-> UNION {l.partsD : l \in ls}]

\* loss.backward(): accumulate into the .grad of every parameter the graph reaches
Backward(s, loss) ==
    [s EXCEPT !.netG.grad = @ \cup loss.partsG,
              !.netD.grad = @ \cup loss.partsD]

----------------------------------------------------------------------------
(* __init__ *)

LossNames == <<"G_GAN", "G_L1", "G_SSIM", "D_real", "D_fake">>

VisualNames == <<"real_B_img", "fake_B_img", "real_watermark", "fake_watermark">>

ModelNames(isTrain) == IF isTrain THEN <<"G", "D">> ELSE <<"G">>

\* if opt.expand_bits: opt.input_nc *= 8; opt.output_nc *= 8  (in place, on opt)
ExpandOpt(o) ==
    IF o.expand_bits
    THEN [o EXCEPT !.input_nc = @ * 8, !.output_nc = @ * 8]
    ELSE o

\* networks.define_G(opt.input_nc, opt.output_nc, ...)
DefineG(o) ==
    [input_nc |-> o.input_nc, output_nc |-> o.output_nc, params |-> 0, grad |-> {},
     requires_grad |-> TRUE, calls |-> 0]

\* networks.define_D(opt.input_nc + opt.output_nc, ...)
DefineD(o) ==
    [input_nc |-> o.input_nc + o.output_nc, output_nc |-> 1, params |-> 0, grad |-> {},
     requires_grad |-> TRUE, calls |-> 0]

\* variant of OptimizerDOwner: optimizer_D built over the Generator's parameters
OptimizerDOwnerWrong == "G"

\* torch.optim.Adam(self.netD.parameters(), ...): the optimizer owns D's parameters
OptimizerDOwner == "D"

\* torch.optim.Adam(self.netG.parameters(), ...): the optimizer owns G's parameters
OptimizerGOwner == "G"

\* the instance before any attribute has been assigned
Unbuilt ==
    [loss_names |-> <<>>, visual_names |-> <<>>, model_names |-> <<>>,
     netG |-> NoNet, netD |-> NoNet,
     optimizer_G |-> NoOptimizer, optimizer_D |-> NoOptimizer, optimizers |-> <<>>,
     real_A |-> NoVal, real_A_img |-> NoVal, real_B |-> NoVal, real_B_img |-> NoVal,
     real_watermark |-> NoCall, image_paths |-> NoVal,
     fake_B |-> NoVal, fake_B_img |-> NoVal, fake_watermark |-> NoCall,
     loss_D_fake |-> NoLoss, loss_D_real |-> NoLoss, loss_D |-> NoLoss,
     loss_G_GAN |-> NoLoss, loss_G_L1 |-> NoLoss, loss_G_SSIM |-> NoLoss,
     loss_G |-> NoLoss]

\* the instance __init__ leaves, o being opt after the channel scaling
NewModel(o) ==
    [Unbuilt EXCEPT
        !.loss_names = LossNames,
        !.visual_names = VisualNames,
        !.model_names = ModelNames(o.isTrain),
        !.netG = DefineG(o),
        !.netD = IF o.isTrain THEN DefineD(o) ELSE NoNet,
        !.optimizer_G = IF o.isTrain THEN [net |-> OptimizerGOwner] ELSE NoOptimizer,
        !.optimizer_D = IF o.isTrain THEN [net |-> OptimizerDOwner] ELSE NoOptimizer,
        !.optimizers = IF o.isTrain
                       THEN <<[net |-> OptimizerGOwner], [net |-> OptimizerDOwner]>>
                       ELSE <<>>]

\* NovelModel(opt): a model is built from the shared option object; a further
\* one may be built from the same object as long as no batch was fed
Construct ==
    /\ pc \in {"new", "idle"}
    /\ builds < MaxBuilds
    /\ opt' = ExpandOpt(opt)
    /\ self' = NewModel(ExpandOpt(opt))
    /\ builds' = builds + 1
    /\ pc' = "idle"
    /\ UNCHANGED <<configured, util, batches, trace>>

----------------------------------------------------------------------------
(* set_input *)

\* Input['A' if AtoB else 'B']
InputKey(AtoB) == IF AtoB THEN "A" ELSE "B"

\* Input['B' if AtoB else 'A']
TargetKey(AtoB) == IF AtoB THEN "B" ELSE "A"

\* variant of PathsKey: the paths of the target key are reported
PathsKeySwapped(AtoB) == IF AtoB THEN "B_paths" ELSE "A_paths"

\* Input['A_paths' if AtoB else 'B_paths']
PathsKey(AtoB) == IF AtoB THEN "A_paths" ELSE "B_paths"

\* codec(...).extract(image [, reference]); channel 0 stands for the
\* constructor's default arguments
Extract(codec, channel, image, reference) ==
    [codec |-> codec, channel |-> channel, image |-> image, reference |-> reference]

\* variant of SetInputExtract: an unknown name silently falls back to LSB
SetInputExtractLenient(w, real_B_img, real_A_img) ==
    IF w = "lsbm" THEN
        [ok |-> TRUE, value |-> Extract("LSBMatching", 2, tensor2im(real_B_img), NoVal)]
    ELSE IF w = "lsbmr" THEN
        [ok |-> TRUE, value |-> Extract("LSBMR", 2, tensor2im(real_B_img), NoVal)]
    ELSE IF w = "rlsb" THEN
        [ok |-> TRUE, value |-> Extract("RobustLSB", 0, tensor2im(real_B_img),
                                        tensor2im(real_A_img))]
    ELSE IF w = "dct" THEN
        [ok |-> TRUE, value |-> Extract("DCT", 0, tensor2im(real_B_img), NoVal)]
    ELSE
        [ok |-> TRUE, value |-> Extract("LSB", 0, tensor2im(real_B_img), NoVal)]

\* the if/elif chain of set_input on opt.watermark
SetInputExtract(w, real_B_img, real_A_img) ==
    IF w = "lsb" THEN
        [ok |-> TRUE, value |-> Extract("LSB", 0, tensor2im(real_B_img), NoVal)]
    ELSE IF w = "lsbm" THEN
        [ok |-> TRUE, value |-> Extract("LSBMatching", 2, tensor2im(real_B_img), NoVal)]
    ELSE IF w = "lsbmr" THEN
        [ok |-> TRUE, value |-> Extract("LSBMR", 2, tensor2im(real_B_img), NoVal)]
    ELSE IF w = "rlsb" THEN
        [ok |-> TRUE, value |-> Extract("RobustLSB", 0, tensor2im(real_B_img),
                                        tensor2im(real_A_img))]
    ELSE IF w = "dct" THEN
        [ok |-> TRUE, value |-> Extract("DCT", 0, tensor2im(real_B_img), NoVal)]
    ELSE
        [ok |-> FALSE, value |-> NoCall]

\* the assignments of set_input that precede the watermark dispatch
SetInputTensors(s, Input, o) ==
    LET AtoB == o.direction = "AtoB"
        real_A == Input[InputKey(AtoB)]
        real_B == Input[TargetKey(AtoB)]
    IN  [s EXCEPT
            !.real_A = real_A,
            !.real_A_img = IF o.expand_bits THEN bits2im(real_A) ELSE Detach(real_A),
            !.real_B = real_B,
            !.real_B_img = IF o.expand_bits THEN bits2im(real_B) ELSE Detach(real_B)]

SetInput ==
    /\ pc \in {"idle", "ready", "done"}
    /\ batches < MaxIter
    /\ batches' = batches + 1
    /\ LET Input == Batch(batches + 1)
           s1 == SetInputTensors(self, Input, opt)
           ext == SetInputExtract(opt.watermark, s1.real_B_img, s1.real_A_img)
       IN  IF ext.ok
           THEN /\ self' = [s1 EXCEPT
                              !.real_watermark = ext.value,
                              !.image_paths = Input[PathsKey(opt.direction = "AtoB")]]
                /\ pc' = "ready"
           ELSE /\ self' = s1        \* raise NotImplementedError
                /\ pc' = "aborted"
    /\ UNCHANGED <<configured, opt, util, builds, trace>>

----------------------------------------------------------------------------
(* forward *)

\* variant of ForwardExtract: the rlsb branch is given the real target as reference
ForwardExtractTargetReference(w, fake_B_img, real_A_img) ==
    IF w = "lsb" THEN
        [ok |-> TRUE, value |-> Extract("LSB", 0, tensor2im(fake_B_img), NoVal)]
    ELSE IF w = "lsbm" THEN
        [ok |-> TRUE, value |-> Extract("LSBMatching", 2, tensor2im(fake_B_img), NoVal)]
    ELSE IF w = "lsbmr" THEN
        [ok |-> TRUE, value |-> Extract("LSBMR", 2, tensor2im(fake_B_img), NoVal)]
    ELSE IF w = "rlsb" THEN
        [ok |-> TRUE, value |-> Extract("RobustLSB", 0, tensor2im(fake_B_img),
                                        tensor2im(self.real_B_img))]
    ELSE IF w = "dct" THEN
        [ok |-> TRUE, value |-> Extract("DCT", 0, tensor2im(fake_B_img), NoVal)]
    ELSE
        [ok |-> FALSE, value |-> NoCall]

\* variant of ForwardExtract: the lsbmr branch is built with the default channel
ForwardExtractDefaultChannel(w, fake_B_img, real_A_img) ==
    IF w = "lsb" THEN
        [ok |-> TRUE, value |-> Extract("LSB", 0, tensor2im(fake_B_img), NoVal)]
    ELSE IF w = "lsbm" THEN
        [ok |-> TRUE, value |-> Extract("LSBMatching", 2, tensor2im(fake_B_img), NoVal)]
    ELSE IF w = "lsbmr" THEN
        [ok |-> TRUE, value |-> Extract("LSBMR", 0, tensor2im(fake_B_img), NoVal)]
    ELSE IF w = "rlsb" THEN
        [ok |-> TRUE, value |-> Extract("RobustLSB", 0, tensor2im(fake_B_img),
                                        tensor2im(real_A_img))]
    ELSE IF w = "dct" THEN
        [ok |-> TRUE, value |-> Extract("DCT", 0, tensor2im(fake_B_img), NoVal)]
    ELSE
        [ok |-> FALSE, value |-> NoCall]

\* the if/elif chain of forward on opt.watermark
ForwardExtract(w, fake_B_img, real_A_img) ==
    IF w = "lsb" THEN
        [ok |-> TRUE, value |-> Extract("LSB", 0, tensor2im(fake_B_img), NoVal)]
    ELSE IF w = "lsbm" THEN
        [ok |-> TRUE, value |-> Extract("LSBMatching", 2, tensor2im(fake_B_img), NoVal)]
    ELSE IF w = "lsbmr" THEN
        [ok |-> TRUE, value |-> Extract("LSBMR", 2, tensor2im(fake_B_img), NoVal)]
    ELSE IF w = "rlsb" THEN
        [ok |-> TRUE, value |-> Extract("RobustLSB", 0, tensor2im(fake_B_img),
                                        tensor2im(real_A_img))]
    ELSE IF w = "dct" THEN
        [ok |-> TRUE, value |-> Extract("DCT", 0, tensor2im(fake_B_img), NoVal)]
    ELSE
        [ok |-> FALSE, value |-> NoCall]

\* self.fake_B_img: bits2im(self.fake_B) under expand_bits, else self.fake_B.detach()
FakeImage(fake_B, expand_bits) ==
    IF expand_bits THEN bits2im(fake_B) ELSE Detach(fake_B)

\* variant of ForwardTensors: a generated output already held is reused
ForwardTensorsCached(s, o) ==
    IF s.fake_B # NoVal
    THEN [s EXCEPT !.netG.calls = @ + 1]
    ELSE LET fake_B == NetGForward(s.real_A)
         IN  [s EXCEPT
                 !.netG.calls = @ + 1,
                 !.fake_B = fake_B,
                 !.fake_B_img = FakeImage(fake_B, o.expand_bits)]

\* the assignments of forward that precede the watermark dispatch
ForwardTensors(s, o) ==
    LET fake_B == NetGForward(s.real_A)
    IN  [s EXCEPT
            !.netG.calls = @ + 1,
            !.fake_B = fake_B,
            !.fake_B_img = FakeImage(fake_B, o.expand_bits)]

----------------------------------------------------------------------------
(* backward_D, backward_G *)

\* self.criterionGAN(prediction, target_is_real), reported under the given name
CriterionGAN(name, prediction) == LossTerm(name, prediction, NoVal)

\* variant of FakePairForD: the fake pair is fed to the discriminator undetached
FakePairForDAttached(real_A, fake_B) == Cat(real_A, fake_B)

\* fake_AB.detach(): what backward_D feeds to the discriminator as the fake pair
FakePairForD(real_A, fake_B) == Detach(Cat(real_A, fake_B))

\* fake_AB: what backward_G feeds to the discriminator as the fake pair
FakePairForG(real_A, fake_B) == Cat(real_A, fake_B)

backward_D(s) ==
    LET pred_fake == NetDForward(FakePairForD(s.real_A, s.fake_B), s.netD.requires_grad)
        loss_D_fake == CriterionGAN("D_fake", pred_fake)
        pred_real == NetDForward(Cat(s.real_A, s.real_B), s.netD.requires_grad)
        loss_D_real == CriterionGAN("D_real", pred_real)
        loss_D == LossSum({loss_D_fake, loss_D_real})
        s1 == [s EXCEPT !.netD.calls = @ + 2,
                        !.loss_D_fake = loss_D_fake,
                        !.loss_D_real = loss_D_real,
                        !.loss_D = loss_D]
    IN  Backward(s1, loss_D)

\* (1 - self.criterionSSIM(im2tensor(self.fake_B_img), im2tensor(self.real_B_img))) * lambda_SSIM
LossGSSIM(fake_B_img, real_B_img) ==
    LossTerm("G_SSIM", im2tensor(fake_B_img), im2tensor(real_B_img))

\* self.criterionL1(self.fake_B, self.real_B) * lambda_L1
LossGL1(fake_B, real_B) == LossTerm("G_L1", fake_B, real_B)

backward_G(s) ==
    LET pred_fake == NetDForward(FakePairForG(s.real_A, s.fake_B), s.netD.requires_grad)
        loss_G_GAN == CriterionGAN("G_GAN", pred_fake)
        loss_G_L1 == LossGL1(s.fake_B, s.real_B)
        loss_G_SSIM == LossGSSIM(s.fake_B_img, s.real_B_img)
        loss_G == LossSum({loss_G_GAN, loss_G_L1, loss_G_SSIM})
        s1 == [s EXCEPT !.netD.calls = @ + 1,
                        !.loss_G_GAN = loss_G_GAN,
                        !.loss_G_L1 = loss_G_L1,
                        !.loss_G_SSIM = loss_G_SSIM,
                        !.loss_G = loss_G]
    IN  Backward(s1, loss_G)

----------------------------------------------------------------------------
(* optimizers and BaseModel.set_requires_grad *)

\* BaseModel.set_requires_grad(self.netD, flag)
set_requires_grad_D(s, flag) == [s EXCEPT !.netD.requires_grad = flag]

\* optimizer.zero_grad(): clears the gradients of the parameters the optimizer owns
zero_grad(s, optimizer) ==
    IF optimizer.net = "G" THEN [s EXCEPT !.netG.grad = {}]
    ELSE IF optimizer.net = "D" THEN [s EXCEPT !.netD.grad = {}]
    ELSE s

\* optimizer.step(): updates the owned parameters that carry a gradient
step(s, optimizer) ==
    IF optimizer.net = "G" /\ s.netG.grad # {} THEN [s EXCEPT !.netG.params = @ + 1]
    ELSE IF optimizer.net = "D" /\ s.netD.grad # {} THEN [s EXCEPT !.netD.params = @ + 1]
    ELSE s

----------------------------------------------------------------------------
(* optimize_parameters: one action per statement, pc names the next one *)

FirstPc == "forward"

\* variant of NextPc: D's gradient tracking is switched off before optimizer_D steps
NextPcEarlyDisable(p) ==
    CASE p = "forward"    -> "enable_D"
      [] p = "enable_D"   -> "zero_D"
      [] p = "zero_D"     -> "backward_D"
      [] p = "backward_D" -> "disable_D"
      [] p = "disable_D"  -> "step_D"
      [] p = "step_D"     -> "zero_G"
      [] p = "zero_G"     -> "backward_G"
      [] p = "backward_G" -> "step_G"
      [] p = "step_G"     -> "done"

\* the statement that follows statement p in optimize_parameters
NextPc(p) ==
    CASE p = "forward"    -> "enable_D"
      [] p = "enable_D"   -> "zero_D"
      [] p = "zero_D"     -> "backward_D"
      [] p = "backward_D" -> "step_D"
      [] p = "step_D"     -> "disable_D"
      [] p = "disable_D"  -> "zero_G"
      [] p = "zero_G"     -> "backward_G"
      [] p = "backward_G" -> "step_G"
      [] p = "step_G"     -> "done"

\* the training script calls optimize_parameters after a successful set_input
OptimizeParameters ==
    /\ pc = "ready"
    /\ opt.isTrain
    /\ pc' = FirstPc
    /\ trace' = <<>>
    /\ UNCHANGED <<configured, opt, util, builds, batches, self>>

Advance(label) ==
    /\ pc' = NextPc(label)
    /\ trace' = Append(trace, label)
    /\ UNCHANGED <<configured, opt, util, builds, batches>>

\* self.forward()
Forward ==
    /\ pc = "forward"
    /\ LET s1 == ForwardTensors(self, opt)
           ext == ForwardExtract(opt.watermark, s1.fake_B_img, s1.real_A_img)
       IN  IF ext.ok
           THEN /\ self' = [s1 EXCEPT !.fake_watermark = ext.value]
                /\ Advance("forward")
           ELSE /\ self' = s1        \* raise NotImplementedError
                /\ pc' = "aborted"
                /\ trace' = Append(trace, "forward")
                /\ UNCHANGED <<configured, opt, util, builds, batches>>

\* self.set_requires_grad(self.netD, True)
EnableD ==
    /\ pc = "enable_D"
    /\ self' = set_requires_grad_D(self, TRUE)
    /\ Advance("enable_D")

\* self.optimizer_D.zero_grad()
ZeroGradD ==
    /\ pc = "zero_D"
    /\ self' = zero_grad(self, self.optimizer_D)
    /\ Advance("zero_D")

\* self.backward_D()
BackwardD ==
    /\ pc = "backward_D"
    /\ self' = backward_D(self)
    /\ Advance("backward_D")

\* self.optimizer_D.step()
StepD ==
    /\ pc = "step_D"
    /\ self' = step(self, self.optimizer_D)
    /\ Advance("step_D")

\* self.set_requires_grad(self.netD, False)
DisableD ==
    /\ pc = "disable_D"
    /\ self' = set_requires_grad_D(self, FALSE)
    /\ Advance("disable_D")

\* self.optimizer_G.zero_grad()
ZeroGradG ==
    /\ pc = "zero_G"
    /\ self' = zero_grad(self, self.optimizer_G)
    /\ Advance("zero_G")

\* self.backward_G()
BackwardG ==
    /\ pc = "backward_G"
    /\ self' = backward_G(self)
    /\ Advance("backward_G")

\* self.optimizer_G.step()
StepG ==
    /\ pc = "step_G"
    /\ self' = step(self, self.optimizer_G)
    /\ Advance("step_G")

----------------------------------------------------------------------------
(* Specification *)

Options ==
    [input_nc : ChannelCounts, output_nc : ChannelCounts, expand_bits : BOOLEAN,
     watermark : Watermarks, direction : Directions, isTrain : BOOLEAN]

Init ==
    /\ configured \in Options
    /\ opt = configured
    /\ util \in [bits2im : BOOLEAN, im2tensor : BOOLEAN]
    /\ builds = 0
    /\ batches = 0
    /\ pc = "new"
    /\ trace = <<>>
    /\ self = Unbuilt

Next ==
    \/ Construct
    \/ SetInput
    \/ OptimizeParameters
    \/ Forward
    \/ EnableD
    \/ ZeroGradD
    \/ BackwardD
    \/ StepD
    \/ DisableD
    \/ ZeroGradG
    \/ BackwardG
    \/ StepG

Spec == Init /\ [][Next]_vars

----------------------------------------------------------------------------
(* Reporting interface (BaseModel.get_current_losses / get_current_visuals) *)

\* getattr(self, 'loss_' + name)
LossAttr(name) ==
    CASE name = "G_GAN"  -> self.loss_G_GAN
      [] name = "G_L1"   -> self.loss_G_L1
      [] name = "G_SSIM" -> self.loss_G_SSIM
      [] name = "D_real" -> self.loss_D_real
      [] name = "D_fake" -> self.loss_D_fake

\* the batches the value of getattr(self, name) was computed from
VisualFrom(name) ==
    CASE name = "real_B_img"     -> self.real_B_img.from
      [] name = "fake_B_img"     -> self.fake_B_img.from
      [] name = "real_watermark" -> self.real_watermark.image.from
                                    \cup self.real_watermark.reference.from
      [] name = "fake_watermark" -> self.fake_watermark.image.from
                                    \cup self.fake_watermark.reference.from

----------------------------------------------------------------------------
(* Properties *)

DLossTerms == {"D_fake", "D_real"}
GLossTerms == {"G_GAN", "G_L1", "G_SSIM"}
Statements == {"forward", "enable_D", "zero_D", "backward_D", "step_D",
               "disable_D", "zero_G", "backward_G", "step_G"}

\* C1: the discriminator's backward pass never puts gradient on Generator
\* parameters (its fake prediction comes from a detached pair); backward_G runs
\* with Discriminator gradient tracking off, and after it gradient is present
\* on Generator parameters while none of the generator's loss terms has been
\* accumulated on Discriminator parameters.
C1_GradientIsolation ==
    /\ self.netG.grad \cap DLossTerms = {}
    /\ self.loss_D_fake.partsG = {}
    /\ self.netD.grad \cap GLossTerms = {}
    /\ pc = "backward_G" => ~self.netD.requires_grad
    /\ pc = "step_G" =>
          /\ self.netG.grad # {}
          /\ "G_GAN" \in self.netG.grad
          /\ self.loss_G.partsD = {}

C1_Witness ==
    /\ pc = "step_G"
    /\ "G_GAN" \in self.netG.grad
    /\ self.netD.grad = DLossTerms

\* C2: the optimizer_D step changes Discriminator parameters and not Generator
\* parameters, the optimizer_G step changes Generator parameters and not
\* Discriminator parameters, and no other step changes either network's
\* parameters.
C2_UpdateFrames ==
    [][ /\ pc = "step_D" => /\ self'.netD.params # self.netD.params
                            /\ self'.netG.params = self.netG.params
        /\ pc = "step_G" => /\ self'.netG.params # self.netG.params
                            /\ self'.netD.params = self.netD.params
        /\ self'.netD.params # self.netD.params => pc = "step_D"
        /\ self'.netG.params # self.netG.params => pc = "step_G" ]_vars

C2_Witness ==
    /\ pc = "disable_D"
    /\ self.netD.params = 2
    /\ self.netG.params = 1

ClaimedOrder ==
    <<"forward", "enable_D", "zero_D", "backward_D", "step_D",
      "disable_D", "zero_G", "backward_G", "step_G">>

\* C3: the statements of an iteration run in the one fixed order forward, enable
\* D tracking, zero D grads, backward_D, one optimizer_D step, disable D
\* tracking, zero G grads, backward_G, one optimizer_G step; the discriminator's
\* optimizer step has completed before tracking is switched off and the
\* generator update begins.
C3_StrictOrder ==
    /\ Len(trace) <= Len(ClaimedOrder)
    /\ \A i \in 1..Len(trace) : trace[i] = ClaimedOrder[i]
    /\ pc \in Statements => pc = ClaimedOrder[Len(trace) + 1]
    /\ pc = "done" => trace = ClaimedOrder
    /\ pc \in {"forward", "enable_D", "zero_D", "backward_D", "step_D", "done"} =>
          self.netD.params = self.netG.params
    /\ pc \in {"disable_D", "zero_G", "backward_G", "step_G"} =>
          self.netD.params = self.netG.params + 1
    /\ pc \in {"zero_G", "backward_G", "step_G"} => ~self.netD.requires_grad

C3_Witness ==
    /\ pc = "done"
    /\ trace = ClaimedOrder
    /\ batches = 2

ErrorStep == pc # "aborted" /\ pc' = "aborted"

C5_GeneratorLossNonIsolated ==
    (pc = "step_G" /\ util.bits2im /\ util.im2tensor) =>
        /\ self.loss_G.partsG = GLossTerms
        /\ self.netG.grad = GLossTerms

\* C6: at both extraction sites the rlsb variant is given the image and, as
\* reference, the conditioning input image of the same batch; every other
\* variant is given the image only.
C6_ReferenceOnlyForRlsb ==
    /\ self.real_watermark # NoCall =>
          /\ self.real_watermark.image = tensor2im(self.real_B_img)
          /\ self.real_watermark.reference =
                IF opt.watermark = "rlsb" THEN tensor2im(self.real_A_img) ELSE NoVal
    /\ self.fake_watermark # NoCall =>
          /\ self.fake_watermark.image = tensor2im(self.fake_B_img)
          /\ opt.watermark # "rlsb" => self.fake_watermark.reference = NoVal
          /\ opt.watermark = "rlsb" =>
                /\ self.fake_watermark.reference.key = self.real_A.key
                /\ self.fake_watermark.reference.form = "numpy"
                /\ self.fake_watermark.reference.from = self.fake_watermark.image.from
                /\ self.fake_watermark.image.from = self.real_A.from =>
                      self.fake_watermark.reference = tensor2im(self.real_A_img)

C6_Witness ==
    /\ pc = "done"
    /\ opt.watermark = "rlsb"
    /\ self.fake_watermark.reference = tensor2im(self.real_A_img)
    /\ self.real_watermark.reference = tensor2im(self.real_A_img)
    /\ self.real_A_img # NoVal

\* C7: when an iteration (set_input, optimize_parameters) has completed, the
\* reported names are exactly the five losses and the four visuals, and each of
\* those values was computed from the batch of that iteration alone.
C7_FreshOutputs ==
    pc = "done" =>
        /\ self.loss_names = <<"G_GAN", "G_L1", "G_SSIM", "D_real", "D_fake">>
        /\ self.visual_names =
              <<"real_B_img", "fake_B_img", "real_watermark", "fake_watermark">>
        /\ \A i \in 1..Len(self.loss_names) :
              LossAttr(self.loss_names[i]).from = {batches}
        /\ \A i \in 1..Len(self.visual_names) :
              VisualFrom(self.visual_names[i]) = {batches}

C7_Witness ==
    /\ pc = "done"
    /\ batches = 2
    /\ self.loss_G_SSIM.from = {2}
    /\ self.fake_watermark.image.from = {2}

ScaledBy8(n) == IF configured.expand_bits THEN 8 * n ELSE n

\* C8: every model built from the configuration, a further one built from the
\* same option object included, has a Generator with exactly 8 times the
\* configured input_nc and output_nc under expand_bits (the configured counts
\* otherwise) and a Discriminator with the sum of the two.
C8_ChannelScaling ==
    builds >= 1 =>
        /\ self.netG.input_nc = ScaledBy8(configured.input_nc)
        /\ self.netG.output_nc = ScaledBy8(configured.output_nc)
        /\ opt.isTrain =>
              self.netD.input_nc =
                  ScaledBy8(configured.input_nc) + ScaledBy8(configured.output_nc)

\* C9: with direction AtoB the input is key A, the target key B and the paths
\* A_paths; with any other direction the input is key B, the target key A and
\* the paths B_paths; input, target and paths come from the same batch, input
\* and target from different keys.
C9_DirectionRoles ==
    self.real_A # NoVal =>
        /\ opt.direction = "AtoB" =>
              /\ self.real_A.key = "A"
              /\ self.real_B.key = "B"
              /\ pc # "aborted" => self.image_paths.key = "A_paths"
        /\ opt.direction # "AtoB" =>
              /\ self.real_A.key = "B"
              /\ self.real_B.key = "A"
              /\ pc # "aborted" => self.image_paths.key = "B_paths"
        /\ self.real_A.key # self.real_B.key
        /\ self.real_A.from = {batches}
        /\ self.real_B.from = {batches}
        /\ pc # "aborted" => self.image_paths.from = {batches}

C9_Witness ==
    /\ pc = "ready"
    /\ opt.direction = "btoa"
    /\ self.real_A.key = "B"
    /\ self.image_paths.key = "B_paths"

\* C10: set_input and forward accept the same watermark names, reject the same
\* strings, and select the same codec with the same construction parameters, so
\* the real and the fake watermark of an iteration come from the same variant.
C10_DispatchAgree ==
    LET r == SetInputExtract(opt.watermark, self.real_B_img, self.real_A_img)
        f == ForwardExtract(opt.watermark, self.fake_B_img, self.real_A_img)
    IN  /\ r.ok = f.ok
        /\ r.value.codec = f.value.codec
        /\ r.value.channel = f.value.channel
        /\ (r.value.reference = NoVal) = (f.value.reference = NoVal)
        /\ self.fake_watermark # NoCall =>
              /\ self.fake_watermark.codec = self.real_watermark.codec
              /\ self.fake_watermark.channel = self.real_watermark.channel

C10_Witness ==
    /\ pc = "done"
    /\ opt.watermark = "lsbmr"
    /\ self.real_watermark.codec = "LSBMR"
    /\ self.fake_watermark.codec = "LSBMR"
    /\ self.fake_watermark.channel = 2

====
